---------------------------- MODULE Spec2Model ----------------------------
(***************************************************************************)
(* Model of the content-cache-backends-config charm state                 *)
(* (src/src/state.py): Configuration.from_charm, its pydantic field       *)
(* validators and Configuration.to_integration_data.                      *)
(*                                                                         *)
(* A Python str is a sequence of one-character strings, so that strip,    *)
(* lower, split, the regular expressions and the IP address parsers are   *)
(* computed character by character.                                       *)
(***************************************************************************)
EXTENDS Integers, Sequences, FiniteSets, TLC

(***************************************************************************)
(* Bounds of the explored inputs.                                          *)
(***************************************************************************)
\* longest exhaustively enumerated hostname / path input
MaxLen == 3
\* most entries of an enumerated backends input
MaxBackends == 2

(***************************************************************************)
(* Program constants.                                                      *)
(***************************************************************************)
\* state.py:67  len(value) > 255
MaxHostnameLen == 255
\* state.py:70  {1,63}
MaxSegmentLen == 63
\* state.py:48-49  StringConstraints(min_length=1)
MinLength == 1

HOSTNAME_CONFIG_NAME == "hostname"
PATH_CONFIG_NAME == "path"
BACKENDS_CONFIG_NAME == "backends"
PROTOCOL_CONFIG_NAME == "protocol"

(***************************************************************************)
(* Characters.                                                             *)
(***************************************************************************)
LowerSeq ==
  << "a", "b", "c", "d", "e", "f", "g", "h", "i", "j", "k", "l", "m",
     "n", "o", "p", "q", "r", "s", "t", "u", "v", "w", "x", "y", "z" >>
UpperSeq ==
  << "A", "B", "C", "D", "E", "F", "G", "H", "I", "J", "K", "L", "M",
     "N", "O", "P", "Q", "R", "S", "T", "U", "V", "W", "X", "Y", "Z" >>
DigitSeq == << "0", "1", "2", "3", "4", "5", "6", "7", "8", "9" >>
HexSeq ==
  << "0", "1", "2", "3", "4", "5", "6", "7", "8", "9",
     "a", "b", "c", "d", "e", "f" >>

Range(s) == { s[i] : i \in DOMAIN s }
IndexOf(s, c) == CHOOSE i \in DOMAIN s : s[i] = c

LowerChars == Range(LowerSeq)
UpperChars == Range(UpperSeq)
DigitChars == Range(DigitSeq)
\* str.strip() with no argument removes whitespace
Whitespace == { " ", "\t", "\n", "\r" }

SetMin(S) == CHOOSE x \in S : \A y \in S : x <= y
SetMax(S) == CHOOSE x \in S : \A y \in S : y <= x

(***************************************************************************)
(* Python str methods used by from_charm.                                  *)
(***************************************************************************)
lowerChar(c) == IF c \in UpperChars THEN LowerSeq[IndexOf(UpperSeq, c)] ELSE c

\* no lower-casing at all
lower_Identity(s) == s

lower(s) == [ i \in 1..Len(s) |-> lowerChar(s[i]) ]

strip(s) ==
  LET keep == { i \in 1..Len(s) : s[i] \notin Whitespace }
  IN  IF keep = {} THEN << >> ELSE SubSeq(s, SetMin(keep), SetMax(keep))

\* str.split(sep): the text between consecutive separators; always at least
\* one part, empty parts kept
split(s, sep) ==
  LET at  == { i \in 1..Len(s) : s[i] = sep }
      n   == Cardinality(at)
      pos == [ k \in 0..(n + 1) |->
                 IF k = 0 THEN 0
                 ELSE IF k = n + 1 THEN Len(s) + 1
                 ELSE CHOOSE i \in at : Cardinality({ j \in at : j < i }) = k - 1 ]
  IN  [ k \in 1..(n + 1) |-> SubSeq(s, pos[k - 1] + 1, pos[k] - 1) ]

\* str.partition(sep): the text before the first sep, whether sep was found,
\* and the text after it
partition(s, sep) ==
  LET at == { i \in 1..Len(s) : s[i] = sep }
  IN  IF at = {} THEN [ head |-> s, found |-> FALSE, tail |-> << >> ]
      ELSE [ head  |-> SubSeq(s, 1, SetMin(at) - 1),
             found |-> TRUE,
             tail  |-> SubSeq(s, SetMin(at) + 1, Len(s)) ]

RECURSIVE Join(_, _)
\* sep.join(parts)
Join(parts, sep) ==
  IF Len(parts) = 0 THEN << >>
  ELSE IF Len(parts) = 1 THEN parts[1]
  ELSE parts[1] \o sep \o Join(Tail(parts), sep)

(***************************************************************************)
(* ipaddress.IPv4Address / IPv6Address, as pydantic.IPvAnyAddress calls    *)
(* them on a str (state.py:50).  An IPv4 address is its four octets, an    *)
(* IPv6 address its eight hextets and its scope id (<< >> when None).      *)
(***************************************************************************)
InvalidAddress == [ version |-> 0 ]

RECURSIVE DecValue(_)
\* int(s, 10) of a string of decimal digits
DecValue(s) ==
  IF Len(s) = 0 THEN 0
  ELSE DecValue(SubSeq(s, 1, Len(s) - 1)) * 10 + (IndexOf(DigitSeq, s[Len(s)]) - 1)

RECURSIVE HexValue(_)
\* int(s, 16) of a string of hexadecimal digits
HexValue(s) ==
  IF Len(s) = 0 THEN 0
  ELSE HexValue(SubSeq(s, 1, Len(s) - 1)) * 16
         + (IndexOf(HexSeq, lowerChar(s[Len(s)])) - 1)

RECURSIVE DecStr(_)
\* str(n) of a natural number
DecStr(n) ==
  IF n < 10 THEN << DigitSeq[n + 1] >>
  ELSE Append(DecStr(n \div 10), DigitSeq[(n % 10) + 1])

RECURSIVE HexStr(_)
\* '%x' % n
HexStr(n) ==
  IF n < 16 THEN << HexSeq[n + 1] >>
  ELSE Append(HexStr(n \div 16), HexSeq[(n % 16) + 1])

\* _BaseV4._parse_octet: the octet, or -1 where it raises ValueError
parse_octet(octet_str) ==
  IF Len(octet_str) = 0 THEN -1
  ELSE IF \E i \in 1..Len(octet_str) : octet_str[i] \notin DigitChars THEN -1
  ELSE IF Len(octet_str) > 3 THEN -1
  ELSE IF octet_str # << "0" >> /\ octet_str[1] = "0" THEN -1
  ELSE IF DecValue(octet_str) > 255 THEN -1
  ELSE DecValue(octet_str)

IPv4Address(address) ==
  IF "/" \in Range(address) THEN InvalidAddress
  ELSE IF Len(address) = 0 THEN InvalidAddress
  ELSE LET octets == split(address, ".")
       IN  IF Len(octets) # 4 THEN InvalidAddress
           ELSE LET vals == [ i \in 1..4 |-> parse_octet(octets[i]) ]
                IN  IF \E i \in 1..4 : vals[i] < 0 THEN InvalidAddress
                    ELSE [ version |-> 4, octets |-> vals ]

\* _BaseV6._parse_hextet: the hextet, or -1 where it raises ValueError
parse_hextet(hextet_str) ==
  IF \E i \in 1..Len(hextet_str) : lowerChar(hextet_str[i]) \notin Range(HexSeq) THEN -1
  ELSE IF Len(hextet_str) > 4 THEN -1
  ELSE IF Len(hextet_str) = 0 THEN -1
  ELSE HexValue(hextet_str)

\* the loops of _BaseV6._ip_int_from_string that read parts_hi leading and
\* parts_lo trailing hextets around parts_skipped zero hextets
HextetsOf(parts, parts_hi, parts_lo, parts_skipped) ==
  LET his == [ i \in 1..parts_hi |-> parse_hextet(parts[i]) ]
      mid == [ i \in 1..parts_skipped |-> 0 ]
      los == [ i \in 1..parts_lo |-> parse_hextet(parts[Len(parts) - parts_lo + i]) ]
      all == his \o mid \o los
  IN  IF \E i \in 1..Len(all) : all[i] < 0 THEN << >> ELSE all

\* _ip_int_from_string, "If the address has an IPv4-style suffix, convert it
\* to hexadecimal": the parts, or << >> where the suffix is no IPv4 address
ConvertSuffix(parts, v4) ==
  IF v4 = InvalidAddress THEN << >>
  ELSE SubSeq(parts, 1, Len(parts) - 1)
         \o << HexStr(v4.octets[1] * 256 + v4.octets[2]),
               HexStr(v4.octets[3] * 256 + v4.octets[4]) >>

\* _ip_int_from_string with a '::' at parts[skip]
HextetsAround(parts, skip) ==
  LET n  == Len(parts)
      hi == IF Len(parts[1]) = 0 THEN skip - 2 ELSE skip - 1
      lo == IF Len(parts[n]) = 0 THEN n - skip - 1 ELSE n - skip
  IN  IF Len(parts[1]) = 0 /\ hi # 0 THEN << >>
      ELSE IF Len(parts[n]) = 0 /\ lo # 0 THEN << >>
      ELSE IF 8 - (hi + lo) < 1 THEN << >>
      ELSE HextetsOf(parts, hi, lo, 8 - (hi + lo))

\* _ip_int_from_string from "An IPv6 address can't have more than 8 colons"
HextetsOfParts(parts) ==
  LET n       == Len(parts)
      empties == { i \in 2..(n - 1) : Len(parts[i]) = 0 }
  IN  IF n = 0 \/ n > 9 THEN << >>
      ELSE IF Cardinality(empties) > 1 THEN << >>
      ELSE IF empties # {} THEN HextetsAround(parts, CHOOSE i \in empties : TRUE)
      ELSE IF n # 8 THEN << >>
      ELSE IF Len(parts[1]) = 0 \/ Len(parts[n]) = 0 THEN << >>
      ELSE HextetsOf(parts, 8, 0, 0)

\* _ip_int_from_string up to the IPv4-style suffix: the parts, << >> where it
\* raises
PartsOf(parts) ==
  IF Len(parts) < 3 THEN << >>
  ELSE IF "." \in Range(parts[Len(parts)])
  THEN ConvertSuffix(parts, IPv4Address(parts[Len(parts)]))
  ELSE parts

\* _BaseV6._ip_int_from_string: the eight hextets, or << >> where it raises
ip_int_from_string(ip_str) ==
  IF Len(ip_str) = 0 THEN << >>
  ELSE HextetsOfParts(PartsOf(split(ip_str, ":")))

IPv6Address(address) ==
  IF "/" \in Range(address) THEN InvalidAddress
  ELSE
    LET p == partition(address, "%")
    IN  IF p.found /\ (Len(p.tail) = 0 \/ "%" \in Range(p.tail)) THEN InvalidAddress
        ELSE LET hextets == ip_int_from_string(p.head)
             IN  IF hextets = << >> THEN InvalidAddress
                 ELSE [ version |-> 6, hextets |-> hextets, scope_id |-> p.tail ]

\* pydantic.IPvAnyAddress: IPv4Address(value), else IPv6Address(value), else
\* the error "value is not a valid IPv4 or IPv6 address"
IPvAnyAddress(value) ==
  IF IPv4Address(value) # InvalidAddress THEN IPv4Address(value)
  ELSE IPv6Address(value)

RECURSIVE CompressScan(_, _, _)
\* the loop of _BaseV6._compress_hextets; index counts from 0
CompressScan(hextets, index, st) ==
  IF index >= Len(hextets) THEN st
  ELSE IF hextets[index + 1] = << "0" >> THEN
    LET len    == st.doublecolon_len + 1
        start  == IF st.doublecolon_start = -1 THEN index ELSE st.doublecolon_start
        better == len > st.best_doublecolon_len
    IN  CompressScan(hextets, index + 1,
          [ doublecolon_len        |-> len,
            doublecolon_start      |-> start,
            best_doublecolon_len   |-> IF better THEN len ELSE st.best_doublecolon_len,
            best_doublecolon_start |-> IF better THEN start
                                       ELSE st.best_doublecolon_start ])
  ELSE CompressScan(hextets, index + 1,
         [ st EXCEPT !.doublecolon_len = 0, !.doublecolon_start = -1 ])

compress_hextets(hextets) ==
  LET st == CompressScan(hextets, 0,
              [ doublecolon_len |-> 0, doublecolon_start |-> -1,
                best_doublecolon_len |-> 0, best_doublecolon_start |-> -1 ])
      bstart == st.best_doublecolon_start
      bend   == st.best_doublecolon_start + st.best_doublecolon_len
      h1 == IF bend = Len(hextets) THEN Append(hextets, << >>) ELSE hextets
      h2 == SubSeq(h1, 1, bstart) \o << << >> >> \o SubSeq(h1, bend + 1, Len(h1))
  IN  IF st.best_doublecolon_len > 1
      THEN IF bstart = 0 THEN << << >> >> \o h2 ELSE h2
      ELSE hextets

\* str(ip): how pydantic serialises an address in model_dump_json
ip_str(ip) ==
  IF ip.version = 4
  THEN Join([ i \in 1..4 |-> DecStr(ip.octets[i]) ], << "." >>)
  ELSE LET text == Join(compress_hextets([ i \in 1..8 |-> HexStr(ip.hextets[i]) ]),
                        << ":" >>)
       IN  IF Len(ip.scope_id) > 0 THEN text \o << "%" >> \o ip.scope_id ELSE text

(***************************************************************************)
(* class Protocol(str, enum.Enum)                                          *)
(***************************************************************************)
HTTP == << "h", "t", "t", "p" >>
HTTPS == << "h", "t", "t", "p", "s" >>
Protocol == { HTTP, HTTPS }

(***************************************************************************)
(* class Configuration(pydantic.BaseModel): the field validators.  Each    *)
(* returns the sequence of pydantic error details of its field, empty      *)
(* when the field is valid.                                                *)
(***************************************************************************)
ErrorDetail(loc, input, msg) == [ loc |-> loc, input |-> input, msg |-> msg ]

\* the segment pattern compiled without re.IGNORECASE
valid_segment_CaseSensitive(segment) ==
  /\ Len(segment) >= 1
  /\ Len(segment) <= MaxSegmentLen
  /\ \A i \in 1..Len(segment) : segment[i] \in UpperChars \cup DigitChars \cup { "-" }
  /\ segment[1] # "-"
  /\ segment[Len(segment)] # "-"

\* the segment pattern without its lookahead (?!-)
valid_segment_NoLookahead(segment) ==
  /\ Len(segment) >= 1
  /\ Len(segment) <= MaxSegmentLen
  /\ \A i \in 1..Len(segment) :
       segment[i] \in UpperChars \cup LowerChars \cup DigitChars \cup { "-" }
  /\ segment[Len(segment)] # "-"

\* re.compile(r"(?!-)[A-Z\d-]{1,63}(?<!-)$", re.IGNORECASE).fullmatch(segment)
valid_segment(segment) ==
  /\ Len(segment) >= 1
  /\ Len(segment) <= MaxSegmentLen
  /\ \A i \in 1..Len(segment) :
       segment[i] \in UpperChars \cup LowerChars \cup DigitChars \cup { "-" }
  /\ segment[1] # "-"
  /\ segment[Len(segment)] # "-"

\* validate_hostname without its check of the whole length
validate_hostname_NoLengthCheck(value) ==
  IF \E i \in 1..Len(split(value, ".")) : ~valid_segment(split(value, ".")[i])
  THEN "Each Hostname segment must be less than 64 in length, and consist of alphanumeric and hyphen"
  ELSE ""

\* the message of the ValueError validate_hostname raises, "" when it returns
validate_hostname(value) ==
  IF Len(value) > MaxHostnameLen THEN "Hostname cannot be longer than 255"
  ELSE IF \E i \in 1..Len(split(value, ".")) : ~valid_segment(split(value, ".")[i])
  THEN "Each Hostname segment must be less than 64 in length, and consist of alphanumeric and hyphen"
  ELSE ""

\* the characters of r"[/A-Z0-9.\-_~!$&'()*+,;=:@]+" under re.IGNORECASE
PathChars ==
  UpperChars \cup LowerChars \cup DigitChars
    \cup { "/", ".", "-", "_", "~", "!", "$", "&", "'", "(", ")", "*", "+",
           ",", ";", "=", ":", "@" }

\* the message of the ValueError validate_path raises, "" when it returns
validate_path(value) ==
  IF Len(value) >= 1 /\ \A i \in 1..Len(value) : value[i] \in PathChars
  THEN ""
  ELSE "Path contains non-allowed character"

\* Annotated[str, StringConstraints(min_length=1)], then the field validator
StrField(loc, value, raised) ==
  IF Len(value) < MinLength
  THEN << ErrorDetail(loc, value, "String should have at least 1 character") >>
  ELSE IF raised # "" THEN << ErrorDetail(loc, value, "Value error, " \o raised) >>
  ELSE << >>

HostnameField(value) == StrField("hostname", value, validate_hostname(value))

PathField(value) == StrField("path", value, validate_path(value))

\* an item validation that stops at the first invalid item
BackendsField_FirstOnly(backends) ==
  LET bad == { i \in 1..Len(backends) : IPvAnyAddress(backends[i]) = InvalidAddress }
  IN  IF bad = {} THEN << >>
      ELSE << ErrorDetail("backends", backends[SetMin(bad)],
                          "value is not a valid IPv4 or IPv6 address") >>

RECURSIVE BackendsFieldFrom(_, _)
\* tuple[pydantic.IPvAnyAddress, ...]: one error detail per invalid item
BackendsFieldFrom(backends, i) ==
  IF i > Len(backends) THEN << >>
  ELSE (IF IPvAnyAddress(backends[i]) = InvalidAddress
        THEN << ErrorDetail("backends", backends[i],
                            "value is not a valid IPv4 or IPv6 address") >>
        ELSE << >>) \o BackendsFieldFrom(backends, i + 1)

BackendsField(backends) == BackendsFieldFrom(backends, 1)

ProtocolField(value) ==
  IF value \in Protocol THEN << >>
  ELSE << ErrorDetail("protocol", value, "Input should be 'http' or 'https'") >>

\* a validation that stops at the first field that fails
ValidateModel_FirstError(hostname, path, backends, protocol) ==
  LET errors == HostnameField(hostname) \o PathField(path)
                  \o BackendsField(backends) \o ProtocolField(protocol)
  IN  IF errors # << >>
      THEN [ kind |-> "ValidationError", errors |-> << errors[1] >> ]
      ELSE [ kind     |-> "Configuration",
             hostname |-> hostname,
             path     |-> path,
             backends |-> [ i \in 1..Len(backends) |-> IPvAnyAddress(backends[i]) ],
             protocol |-> protocol ]

\* cls(hostname=..., path=..., backends=..., protocol=...): the fields are
\* validated in declaration order and every error is collected
ValidateModel(hostname, path, backends, protocol) ==
  LET errors == HostnameField(hostname) \o PathField(path)
                  \o BackendsField(backends) \o ProtocolField(protocol)
  IN  IF errors # << >>
      THEN [ kind |-> "ValidationError", errors |-> errors ]
      ELSE [ kind     |-> "Configuration",
             hostname |-> hostname,
             path     |-> path,
             backends |-> [ i \in 1..Len(backends) |-> IPvAnyAddress(backends[i]) ],
             protocol |-> protocol ]

(***************************************************************************)
(* Configuration.from_charm                                                *)
(***************************************************************************)
\* charm.config.get(name, "")
ConfigGet(config, name) == IF name \in DOMAIN config THEN config[name] ELSE << >>

ConfigurationError(message, err_msg) ==
  [ kind |-> "ConfigurationError", message |-> message, err_msg |-> err_msg ]

\* a split of the backends input that leaves out the blank entries
BackendsTuple_SkipBlank(backends_str) ==
  SelectSeq([ i \in 1..Len(split(backends_str, ",")) |-> strip(split(backends_str, ",")[i]) ],
            LAMBDA ip : ip # << >>)

\* tuple(ip.strip() for ip in backends_str.split(","))
BackendsTuple(backends_str) ==
  [ i \in 1..Len(split(backends_str, ",")) |-> strip(split(backends_str, ",")[i]) ]

\* from_charm without its check of an empty backends input
from_charm_NoEmptyCheck(config) ==
  LET made == ValidateModel(strip(ConfigGet(config, HOSTNAME_CONFIG_NAME)),
                            strip(ConfigGet(config, PATH_CONFIG_NAME)),
                            BackendsTuple(strip(ConfigGet(config, BACKENDS_CONFIG_NAME))),
                            strip(lower(ConfigGet(config, PROTOCOL_CONFIG_NAME))))
  IN  IF made.kind = "ValidationError"
      THEN ConfigurationError("Config error", made.errors)
      ELSE made

\* the result of Configuration.from_charm: the Configuration it returns or the
\* ConfigurationError it raises.  err_msg is the list the message
\* f"Config error: {err_msg}" prints, one f'{loc[0]} = {input}: {msg}' each.
from_charm(config) ==
  LET hostname     == strip(ConfigGet(config, HOSTNAME_CONFIG_NAME))
      path         == strip(ConfigGet(config, PATH_CONFIG_NAME))
      protocol     == strip(lower(ConfigGet(config, PROTOCOL_CONFIG_NAME)))
      backends_str == strip(ConfigGet(config, BACKENDS_CONFIG_NAME))
  IN  IF Len(backends_str) = 0
      THEN ConfigurationError("Empty backends configuration found", << >>)
      ELSE
        LET made == ValidateModel(hostname, path, BackendsTuple(backends_str), protocol)
        IN  IF made.kind = "ValidationError"
            THEN ConfigurationError("Config error", made.errors)
            ELSE made

(***************************************************************************)
(* Configuration.to_integration_data                                       *)
(***************************************************************************)
Dropped == "<dropped>"
IsKept(c) == c # Dropped

\* the characters of a JSON string literal's body: a backslash is put before
\* the quote and the backslash
JsonEscape(s) ==
  SelectSeq([ k \in 1..(2 * Len(s)) |->
                IF k % 2 = 0 THEN s[k \div 2]
                ELSE IF s[(k + 1) \div 2] \in { "\"", "\\" } THEN "\\"
                ELSE Dropped ],
            IsKept)

JsonString(s) == << "\"" >> \o JsonEscape(s) \o << "\"" >>

\* a dump that lists the addresses last to first
model_dump_json_Reversed(self) ==
  [ hostname |-> JsonString(self.hostname),
    path     |-> JsonString(self.path),
    backends |-> << "[" >>
                   \o Join([ i \in 1..Len(self.backends) |->
                               JsonString(ip_str(self.backends[Len(self.backends) + 1 - i])) ],
                           << "," >>)
                   \o << "]" >>,
    protocol |-> JsonString(self.protocol) ]

\* self.model_dump_json(): per field, the JSON text of its value.  A str and
\* the Protocol enum dump as a JSON string, the tuple of addresses as the
\* compact JSON array of str(address).
model_dump_json(self) ==
  [ hostname |-> JsonString(self.hostname),
    path     |-> JsonString(self.path),
    backends |-> << "[" >>
                   \o Join([ i \in 1..Len(self.backends) |->
                               JsonString(ip_str(self.backends[i])) ], << "," >>)
                   \o << "]" >>,
    protocol |-> JsonString(self.protocol) ]

\* whether text[i] is a backslash that escapes text[i + 1] in the string
\* literal whose body starts at text[start]: it follows an even number of
\* backslashes
IsEscape(text, start, i) ==
  /\ text[i] = "\\"
  /\ LET others == { j \in start..(i - 1) : text[j] # "\\" }
         run    == IF others = {} THEN i - start ELSE i - 1 - SetMax(others)
     IN  run % 2 = 0

\* reads the JSON string literal whose body starts at text[start]: its value,
\* and the index after its closing quote
ScanString(text, start) ==
  LET escaped(i) == i > start /\ IsEscape(text, start, i - 1)
      close == SetMin({ i \in start..Len(text) : text[i] = "\"" /\ ~escaped(i) })
  IN  [ value |-> SelectSeq([ k \in 1..(close - start) |->
                                IF IsEscape(text, start, start + k - 1)
                                THEN Dropped ELSE text[start + k - 1] ],
                            IsKept),
        next  |-> close + 1 ]

RECURSIVE ScanArray(_, _, _)
\* reads the items of a JSON array of strings from text[i]
ScanArray(text, i, acc) ==
  IF text[i] = "]" THEN acc
  ELSE IF text[i] \in { ",", " " } THEN ScanArray(text, i + 1, acc)
  ELSE LET s == ScanString(text, i + 1)
       IN  ScanArray(text, s.next, Append(acc, s.value))

\* json.loads of one value of the dump: a str or a list of str
json_loads(text) ==
  IF text[1] = "\"" THEN [ type |-> "str", value |-> ScanString(text, 2).value ]
  ELSE [ type |-> "list", value |-> ScanArray(text, 2, << >>) ]

\* json.dumps(value) of a list of str: items separated by ", "
json_dumps(value) ==
  << "[" >>
    \o Join([ i \in 1..Len(value) |-> JsonString(value[i]) ], << ",", " " >>)
    \o << "]" >>

to_integration_data(self) ==
  LET dump == model_dump_json(self)
      data == [ key \in DOMAIN dump |-> json_loads(dump[key]) ]
  IN  [ key \in DOMAIN data |->
          IF data[key].type = "str" THEN data[key].value
          ELSE json_dumps(data[key].value) ]

(***************************************************************************)
(* The explored charm configurations.                                      *)
(***************************************************************************)
Strings(alphabet, n) == UNION { [ 1..k -> alphabet ] : k \in 0..n }

Rep(c, n) == [ i \in 1..n |-> c ]

\* a key the charm configuration does not hold
Absent == << "<absent>" >>

Padded(S) == S \cup { << " " >> \o s \o << " " >> : s \in S }

HostnameAlphabet == { "a", "Z", "1", "-", ".", " ", "?" }

\* hostnames at the length limits of validate_hostname
LongHostnames ==
  LET full == Rep("a", MaxSegmentLen)
      dot  == << "." >>
      most == full \o dot \o full \o dot \o full \o dot
  IN  { full,
        Rep("a", MaxSegmentLen + 1),
        full \o dot \o Rep("Z", MaxSegmentLen + 1),
        most \o Rep("1", MaxHostnameLen - Len(most)),
        << " " >> \o most \o Rep("1", MaxHostnameLen - Len(most)) \o << "\t" >>,
        most \o Rep("1", MaxHostnameLen - Len(most) - 1) \o << "-" >>,
        most \o Rep("a", MaxHostnameLen - Len(most) - 1) \o dot \o << "a" >> }

HostnameInputs == Strings(HostnameAlphabet, MaxLen) \cup LongHostnames

PathAlphabet == { "/", "a", "Z", "0", "@", "^", " " }

PathInputs == Strings(PathAlphabet, MaxLen) \cup { Absent }

BackendEntries ==
  { << "1", "0", ".", "1", "0", ".", "1", ".", "1" >>,
    << "1", "0", ".", "1", ".", "1", ".", "2" >>,
    << "m", "o", "c", "k" >>,
    << "1", "0", ".", "1", "0", ".", "1" >>,
    << ":", ":", "0", "0", "0", "1" >>,
    << "h", "t", "t", "p", ":", "1", "0", ".", "1", "0", ".", "1", ".", "1" >>,
    << "h", "t", "t", "p", "s", ":", "1", "0", ".", "1", ".", "1", ".", "2" >>,
    << >> }

BackendsInputs ==
  { << >>, << " " >>, << "\t", " " >> }
    \cup { Join(entries, << "," >>) :
             entries \in UNION { [ 1..k -> Padded(BackendEntries) ] : k \in 1..MaxBackends } }

upperChar(c) == IF c \in LowerChars THEN UpperSeq[IndexOf(LowerSeq, c)] ELSE c

RECURSIVE CaseVariants(_)
\* a word in every mix of upper and lower case
CaseVariants(word) ==
  IF Len(word) = 0 THEN { << >> }
  ELSE { << c >> \o rest : c \in { Head(word), upperChar(Head(word)) },
                           rest \in CaseVariants(Tail(word)) }

ProtocolWords ==
  { HTTP, HTTPS, << "f", "t", "p" >>, << "h", "t", "t" >>,
    << "h", "t", "t", "p", "x" >> }

ProtocolInputs ==
  Padded(UNION { CaseVariants(word) : word \in ProtocolWords })
    \cup { << >>, << " " >>, << "u", "n", "k", "n", "o", "w", "n" >>,
           << "h", "t", " ", "t", "p" >> }

\* the values of the fields that are not the one explored
HostnameBase == { << "a", ".", "Z" >>, << "-", "a" >> }
PathBase == { << "/" >>, Absent }
BackendsBase ==
  { << "1", "0", ".", "1", "0", ".", "1", ".", "1", ",", " ",
       "1", "0", ".", "1", "0", ".", "2", ".", "2" >>,
    << "m", "o", "c", "k" >>,
    << >> }
ProtocolBase == { HTTPS, << "f", "t", "p" >> }

\* charm.config: the keys that are set, each with its raw value
MakeConfig(hostname, path, backends, protocol) ==
  LET raw == [ hostname |-> hostname, path |-> path,
               backends |-> backends, protocol |-> protocol ]
  IN  [ name \in { n \in DOMAIN raw : raw[n] # Absent } |-> raw[name] ]

Configs ==
  { MakeConfig(h, p, b, pr) :
      h \in HostnameInputs, p \in PathBase, b \in BackendsBase, pr \in ProtocolBase }
  \cup { MakeConfig(h, p, b, pr) :
      h \in HostnameBase, p \in PathInputs, b \in BackendsBase, pr \in ProtocolBase }
  \cup { MakeConfig(h, p, b, pr) :
      h \in HostnameBase, p \in PathBase, b \in BackendsInputs, pr \in ProtocolBase }
  \cup { MakeConfig(h, p, b, pr) :
      h \in HostnameBase, p \in PathBase, b \in BackendsBase, pr \in ProtocolInputs }

(***************************************************************************)
(* The state machine: one validation of a charm configuration, then the    *)
(* conversion of the Configuration it returned.                            *)
(***************************************************************************)
VARIABLES
  config,     \* charm.config
  pc,         \* the position: what was done last
  result,     \* what Configuration.from_charm returned or raised
  data,       \* what to_integration_data returned or raised
  is_leader,  \* self.unit.is_leader()
  relations,  \* self.model.relations["cache-config"]: per relation, rel.data[self.app]
  status      \* self.unit.status

vars == << config, pc, result, data, is_leader, relations, status >>

None == [ kind |-> "None" ]

\* ops status values
\* ops status values; a message is its text followed by the entries it lists
MaintenanceStatus == [ name |-> "maintenance", message |-> << >> ]
ActiveStatus == [ name |-> "active", message |-> << >> ]
BlockedStatus(message) == [ name |-> "blocked", message |-> message ]

CONFIG_INTEGRATION_NAME == "cache-config"

\* self.model.relations without any relation
NoRelations == [ name \in { CONFIG_INTEGRATION_NAME } |-> << >> ]

Init ==
  /\ config \in Configs
  /\ pc = "start"
  /\ result = None
  /\ data = None
  /\ is_leader = FALSE
  /\ relations = NoRelations
  /\ status = MaintenanceStatus

FromCharm ==
  /\ pc = "start"
  /\ result' = from_charm(config)
  /\ pc' = "validated"
  /\ UNCHANGED << config, data, is_leader, relations, status >>

ToIntegrationData ==
  /\ pc = "validated"
  /\ result.kind = "Configuration"
  /\ data' = to_integration_data(result)
  /\ pc' = "converted"
  /\ UNCHANGED << config, result, is_leader, relations, status >>

\* the calls of to_integration_data that can raise, each with the exception
\* it raises when it fails
Faults == [ model_dump_json |-> "PydanticSerializationError", json_dumps |-> "ValueError" ]

\* to_integration_data when the call named fault fails: no try statement is
\* around either call, the exception leaves the method as it was raised
\* (json.dumps is called, backends being no str)
to_integration_data_raising(self, fault) ==
  IF \/ fault = "model_dump_json"
     \/ \E key \in DOMAIN model_dump_json(self) :
          json_loads(model_dump_json(self)[key]).type # "str"
  THEN [ kind |-> Faults[fault] ]
  ELSE to_integration_data(self)

ToIntegrationDataRaises ==
  /\ pc = "validated"
  /\ result.kind = "Configuration"
  /\ \E fault \in DOMAIN Faults : data' = to_integration_data_raising(result, fault)
  /\ pc' = "failed"
  /\ UNCHANGED << config, result, is_leader, relations, status >>

Next == FromCharm \/ ToIntegrationData \/ ToIntegrationDataRaises

Spec == Init /\ [][Next]_vars

(***************************************************************************)
(* The constraints of the data model, stated on a value without the        *)
(* validators' code.                                                       *)
(***************************************************************************)
Letters == LowerChars \cup UpperChars

IsBlank(s) == \A i \in 1..Len(s) : s[i] \in Whitespace

\* s is w with whitespace around it
IsPaddingOf(s, w) ==
  \E i \in 1..(Len(s) + 1) :
    /\ i + Len(w) - 1 <= Len(s)
    /\ SubSeq(s, i, i + Len(w) - 1) = w
    /\ \A k \in 1..(i - 1) : s[k] \in Whitespace
    /\ \A k \in (i + Len(w))..Len(s) : s[k] \in Whitespace

\* the text of s between its first and its last character that is no
\* whitespace
Trimmed(s) ==
  LET first == CHOOSE i \in 1..(Len(s) + 1) :
                 /\ i <= Len(s) => s[i] \notin Whitespace
                 /\ \A k \in 1..(i - 1) : s[k] \in Whitespace
      last  == CHOOSE j \in 0..Len(s) :
                 /\ j >= 1 => s[j] \notin Whitespace
                 /\ \A k \in (j + 1)..Len(s) : s[Len(s) + j + 1 - k] \in Whitespace
  IN  SubSeq(s, first, last)

\* hostname: non-empty, at most 255 characters, every dot-separated label 1
\* to 63 letters, digits and hyphens that neither starts nor ends with a hyphen
HostnameOk(h) ==
  /\ Len(h) >= 1
  /\ Len(h) <= 255
  /\ \A i \in 1..Len(h) : h[i] \in Letters \cup DigitChars \cup { "-", "." }
  /\ h[1] \notin { "-", "." }
  /\ h[Len(h)] \notin { "-", "." }
  /\ \A i \in 1..(Len(h) - 1) :
       << h[i], h[i + 1] >> \notin { << ".", "." >>, << ".", "-" >>, << "-", "." >> }
  /\ \A i \in 1..(Len(h) - 63) : \E k \in i..(i + 63) : h[k] = "."

\* path: non-empty, made of letters, digits and / . - _ ~ ! $ & ' ( ) * + , ; = : @
PathOk(p) ==
  /\ p # << >>
  /\ Range(p) \subseteq
       Letters \cup DigitChars
         \cup { "/", ".", "-", "_", "~", "!", "$", "&", "'", "(", ")", "*", "+",
                ",", ";", "=", ":", "@" }

\* a parsed IPv4 or IPv6 address
AddressOk(ip) ==
  \/ /\ ip.version = 4
     /\ Len(ip.octets) = 4
     /\ \A i \in 1..4 : ip.octets[i] \in 0..255
  \/ /\ ip.version = 6
     /\ Len(ip.hextets) = 8
     /\ \A i \in 1..8 : ip.hextets[i] \in 0..65535

\* the raw inputs of the explored configuration ("" for a key that is not set)
RawHostname == IF "hostname" \in DOMAIN config THEN config.hostname ELSE << >>
RawPath == IF "path" \in DOMAIN config THEN config.path ELSE << >>
RawBackends == IF "backends" \in DOMAIN config THEN config.backends ELSE << >>
RawProtocol == IF "protocol" \in DOMAIN config THEN config.protocol ELSE << >>

\* the entries of the backends input, trimmed
Entries == LET parts == split(Trimmed(RawBackends), ",")
           IN  [ i \in 1..Len(parts) |-> Trimmed(parts[i]) ]

EntryOk(entry) == IPvAnyAddress(entry) # InvalidAddress

HostnameInputOk == HostnameOk(Trimmed(RawHostname))
PathInputOk == PathOk(Trimmed(RawPath))
BackendsInputOk == ~IsBlank(RawBackends) /\ \A i \in 1..Len(Entries) : EntryOk(Entries[i])
ProtocolInputOk == \E word \in Protocol : \E v \in CaseVariants(word) :
                     IsPaddingOf(RawProtocol, v)

Validated == pc # "start"
Raised == result.kind = "ConfigurationError"
Returned == result.kind = "Configuration"

\* the fields the entries of the aggregated message name, in order
Locs == [ i \in 1..Len(result.err_msg) |-> result.err_msg[i].loc ]

Reports(field) == Raised /\ \E i \in 1..Len(result.err_msg) : result.err_msg[i].loc = field

(***************************************************************************)
(* C1: whatever the hostname, path and protocol inputs are, a backends     *)
(* input that is empty after trimming makes from_charm raise the           *)
(* ConfigurationError "Empty backends configuration found", with no field  *)
(* error aggregated into it.                                               *)
(***************************************************************************)
C1_EmptyBackendsFailsFast ==
  (Validated /\ IsBlank(RawBackends)) =>
    /\ Raised
    /\ result.message = "Empty backends configuration found"
    /\ result.err_msg = << >>

\* a blank backends input beside an invalid hostname and an invalid protocol
C1_Witness ==
  /\ Validated
  /\ RawBackends # << >> /\ IsBlank(RawBackends)
  /\ ~HostnameInputOk
  /\ ~ProtocolInputOk
  /\ result.message = "Empty backends configuration found"

(***************************************************************************)
(* C2: with a non-empty backends input, from_charm collects the failures   *)
(* of all invalid fields into one ConfigurationError "Config error: [...]" *)
(* whose entries are in field declaration order (hostname, path, backends, *)
(* protocol).                                                              *)
(***************************************************************************)
InvalidEntries == SelectSeq(Entries, LAMBDA entry : ~EntryOk(entry))

AnyInputInvalid ==
  ~HostnameInputOk \/ ~PathInputOk \/ ~BackendsInputOk \/ ~ProtocolInputOk

\* C2 as stated: the message holds one entry per invalid field
C2_OneEntryPerInvalidField ==
  (Validated /\ ~IsBlank(RawBackends) /\ AnyInputInvalid) =>
    /\ Raised
    /\ result.message = "Config error"
    /\ Locs = (IF HostnameInputOk THEN << >> ELSE << "hostname" >>)
                \o (IF PathInputOk THEN << >> ELSE << "path" >>)
                \o (IF BackendsInputOk THEN << >> ELSE << "backends" >>)
                \o (IF ProtocolInputOk THEN << >> ELSE << "protocol" >>)

\* C2 as amended: one entry for each of hostname, path and protocol that is
\* invalid and one entry per invalid item of backends, which it names; the
\* entries in field declaration order, those of backends in input order
C2_AggregatesAllFailures ==
  (Validated /\ ~IsBlank(RawBackends) /\ AnyInputInvalid) =>
    /\ Raised
    /\ result.message = "Config error"
    /\ Locs = (IF HostnameInputOk THEN << >> ELSE << "hostname" >>)
                \o (IF PathInputOk THEN << >> ELSE << "path" >>)
                \o [ i \in 1..Len(InvalidEntries) |-> "backends" ]
                \o (IF ProtocolInputOk THEN << >> ELSE << "protocol" >>)
    /\ SelectSeq(result.err_msg, LAMBDA e : e.loc = "backends")
         = [ i \in 1..Len(InvalidEntries) |->
               [ loc |-> "backends", input |-> InvalidEntries[i],
                 msg |-> "value is not a valid IPv4 or IPv6 address" ] ]

\* all four fields invalid at once, two items of backends among them
C2_Witness ==
  /\ Validated
  /\ ~HostnameInputOk /\ ~PathInputOk /\ ~ProtocolInputOk
  /\ Len(InvalidEntries) = 2
  /\ Raised
  /\ Len(result.err_msg) = 5

(***************************************************************************)
(* C3: validation is all-or-nothing: from_charm raises ConfigurationError  *)
(* or returns a Configuration whose fields all satisfy their constraints:  *)
(* a valid hostname, a valid path, a non-empty sequence of IPv4/IPv6       *)
(* addresses and a protocol that is http or https.                         *)
(***************************************************************************)
C3_AllOrNothing ==
  Validated =>
    \/ Raised
    \/ /\ Returned
       /\ HostnameOk(result.hostname)
       /\ PathOk(result.path)
       /\ Len(result.backends) >= 1
       /\ \A i \in 1..Len(result.backends) : AddressOk(result.backends[i])
       /\ result.protocol \in { << "h", "t", "t", "p" >>, << "h", "t", "t", "p", "s" >> }

\* a Configuration was returned, for a hostname with a hyphen inside a label
C3_Witness ==
  /\ Validated
  /\ Returned
  /\ \E i \in 1..Len(result.hostname) : result.hostname[i] = "-"
  /\ Len(result.backends) = 2

(***************************************************************************)
(* C4: a valid hostname H, possibly with whitespace around it in the       *)
(* input, beside valid other fields: from_charm succeeds and the hostname  *)
(* of the result is H with the whitespace removed and nothing else         *)
(* changed.                                                                *)
(***************************************************************************)
C4_ValidHostnameKept ==
  (/\ Validated
   /\ HostnameOk(Trimmed(RawHostname))
   /\ PathInputOk /\ BackendsInputOk /\ ProtocolInputOk) =>
    /\ Returned
    /\ result.hostname = Trimmed(RawHostname)

\* a hostname with an upper-case letter and whitespace around it was accepted
C4_Witness ==
  /\ Validated
  /\ Returned
  /\ RawHostname # Trimmed(RawHostname)
  /\ \E i \in 1..Len(result.hostname) : result.hostname[i] \in UpperChars
  /\ result.hostname = Trimmed(RawHostname)

(***************************************************************************)
(* C5: a hostname that is empty after trimming, longer than 255            *)
(* characters, or has a dot-separated label that is empty, longer than 63  *)
(* characters, holds a character other than letters, digits and hyphen, or *)
(* starts or ends with a hyphen, makes from_charm fail with a              *)
(* ConfigurationError reporting the hostname field.                        *)
(***************************************************************************)
LabelBad(label) ==
  \/ Len(label) = 0
  \/ Len(label) > 63
  \/ \E i \in 1..Len(label) : label[i] \notin Letters \cup DigitChars \cup { "-" }
  \/ label[1] = "-"
  \/ label[Len(label)] = "-"

HostnameBad(h) ==
  \/ Len(h) = 0
  \/ Len(h) > 255
  \/ \E k \in 1..Len(split(h, ".")) : LabelBad(split(h, ".")[k])

\* C5 as stated: whatever the other inputs are
C5_InvalidHostnameReported ==
  (Validated /\ HostnameBad(Trimmed(RawHostname))) => Reports("hostname")

\* C5 as amended: when the backends input is not empty after trimming; the
\* hostname entry is then the first of the message and shows the trimmed input
C5_InvalidHostnameReportedUnlessEmptyBackends ==
  (Validated /\ HostnameBad(Trimmed(RawHostname)) /\ ~IsBlank(RawBackends)) =>
    /\ Reports("hostname")
    /\ result.err_msg[1].loc = "hostname"
    /\ result.err_msg[1].input = Trimmed(RawHostname)

\* a hostname of more than 255 characters whose labels are all well-formed is
\* reported
C5_Witness ==
  /\ Validated
  /\ Len(Trimmed(RawHostname)) > 255
  /\ \A k \in 1..Len(split(Trimmed(RawHostname), ".")) :
       ~LabelBad(split(Trimmed(RawHostname), ".")[k])
  /\ ~IsBlank(RawBackends)
  /\ Reports("hostname")

(***************************************************************************)
(* C6: backends parsing never drops or reorders entries: either every      *)
(* entry of the comma-separated input is, after trimming, a valid          *)
(* IPv4/IPv6 literal and the backends of the result hold one element per   *)
(* entry, in input order, duplicates kept; or an entry is invalid and the  *)
(* validation fails with an address error naming it.                       *)
(***************************************************************************)
BackendsErrors == SelectSeq(result.err_msg, LAMBDA e : e.loc = "backends")

OneElementPerEntry ==
  /\ Returned
  /\ Len(result.backends) = Len(Entries)
  /\ \A i \in 1..Len(Entries) : result.backends[i] = IPvAnyAddress(Entries[i])

InvalidEntriesNamed ==
  /\ Raised
  /\ BackendsErrors = [ i \in 1..Len(InvalidEntries) |->
                          [ loc |-> "backends", input |-> InvalidEntries[i],
                            msg |-> "value is not a valid IPv4 or IPv6 address" ] ]

\* C6 as stated: for every backends input
C6_NoEntryDroppedOrReordered ==
  Validated =>
    \/ (\A i \in 1..Len(Entries) : EntryOk(Entries[i])) /\ OneElementPerEntry
    \/ (\E i \in 1..Len(Entries) : ~EntryOk(Entries[i])) /\ InvalidEntriesNamed

\* C6 as amended: for a backends input that is not empty after trimming; the
\* elements are returned when the other fields are valid as well
C6_NoEntryDroppedOrReorderedWhenNotEmpty ==
  (Validated /\ ~IsBlank(RawBackends)) =>
    /\ (/\ \A i \in 1..Len(Entries) : EntryOk(Entries[i])
        /\ HostnameInputOk /\ PathInputOk /\ ProtocolInputOk) => OneElementPerEntry
    /\ (\E i \in 1..Len(Entries) : ~EntryOk(Entries[i])) => InvalidEntriesNamed

\* the same address twice in the input is twice in the result
C6_Witness ==
  /\ Validated
  /\ Returned
  /\ Len(Entries) = 2
  /\ Len(result.backends) = 2
  /\ result.backends[1] = result.backends[2]

(***************************************************************************)
(* C7: the backends input "http:10.10.1.1,https:10.1.1.2", in the extended *)
(* protocol:ip form, is accepted and yields the backends (http, 10.10.1.1) *)
(* and (https, 10.1.1.2) in that order.                                    *)
(***************************************************************************)
ExtendedEntry1 ==
  << "h", "t", "t", "p", ":", "1", "0", ".", "1", "0", ".", "1", ".", "1" >>
ExtendedEntry2 ==
  << "h", "t", "t", "p", "s", ":", "1", "0", ".", "1", ".", "1", ".", "2" >>
BareEntry1 == << "1", "0", ".", "1", "0", ".", "1", ".", "1" >>
BareEntry2 == << "1", "0", ".", "1", ".", "1", ".", "2" >>

OtherThanBackendsOk == HostnameInputOk /\ PathInputOk /\ ProtocolInputOk

SpelledProtocol == CHOOSE word \in Protocol :
                     \E v \in CaseVariants(word) : IsPaddingOf(RawProtocol, v)

\* the input as the message shows it: trimmed and in lower case
ShownProtocol ==
  [ i \in 1..Len(Trimmed(RawProtocol)) |->
      IF Trimmed(RawProtocol)[i] \in UpperChars
      THEN LowerSeq[IndexOf(UpperSeq, Trimmed(RawProtocol)[i])]
      ELSE Trimmed(RawProtocol)[i] ]

ProtocolNamed ==
  /\ Raised
  /\ \E i \in 1..Len(result.err_msg) :
       /\ result.err_msg[i].loc = "protocol"
       /\ result.err_msg[i].input = ShownProtocol

\* C8 as stated: whatever the other inputs are
C8_ProtocolNormalised ==
  Validated =>
    /\ ProtocolInputOk => (Returned /\ result.protocol = SpelledProtocol)
    /\ ~ProtocolInputOk => ProtocolNamed

\* C8 as amended: the protocol is yielded when the other fields are valid,
\* and an invalid one is named when the backends input is not empty
C8_ProtocolNormalisedOrNamed ==
  Validated =>
    /\ (ProtocolInputOk /\ HostnameInputOk /\ PathInputOk /\ BackendsInputOk) =>
         (Returned /\ result.protocol = SpelledProtocol)
    /\ (~ProtocolInputOk /\ ~IsBlank(RawBackends)) =>
         (ProtocolNamed /\ result.err_msg[Len(result.err_msg)].loc = "protocol")

\* an input in mixed case with whitespace around it yielded its protocol
C8_Witness ==
  /\ Validated
  /\ Returned
  /\ RawProtocol # Trimmed(RawProtocol)
  /\ \E i \in 1..Len(RawProtocol) : RawProtocol[i] \in UpperChars
  /\ \E i \in 1..Len(RawProtocol) : RawProtocol[i] \in LowerChars
  /\ result.protocol = SpelledProtocol

(***************************************************************************)
(* C9: a configuration that sets only a valid hostname, backends and       *)
(* protocol is accepted, and the result has the defaults: path "/",        *)
(* health_check_path "/", health_check_interval 30, backends_path "/" and  *)
(* an empty proxy_cache_valid.                                             *)
(***************************************************************************)
C9_DefaultsApplied ==
  (/\ Validated
   /\ DOMAIN config = { "hostname", "backends", "protocol" }
   /\ HostnameInputOk /\ BackendsInputOk /\ ProtocolInputOk) =>
    /\ Returned
    /\ result.path = << "/" >>
    /\ { "health_check_path", "health_check_interval", "backends_path",
         "proxy_cache_valid" } \subseteq DOMAIN result
    /\ result.health_check_path = << "/" >>
    /\ result.health_check_interval = 30
    /\ result.backends_path = << "/" >>
    /\ result.proxy_cache_valid = << >>

(***************************************************************************)
(* C10: to_integration_data of a valid Configuration is a map with one key *)
(* per field whose values are all strings: hostname, path and protocol     *)
(* unchanged, backends the JSON array of the address strings in their      *)
(* order.                                                                  *)
(***************************************************************************)
Converted == pc = "converted"

IsStr(value) == \A i \in 1..Len(value) : value[i] \in STRING

\* the strings of the JSON array text
ArrayItems(text) == ScanArray(text, 2, << >>)

C10_IntegrationData ==
  Converted =>
    /\ DOMAIN data = { "hostname", "path", "backends", "protocol" }
    /\ \A key \in DOMAIN data : IsStr(data[key])
    /\ data.hostname = result.hostname
    /\ data.path = result.path
    /\ data.protocol = result.protocol
    /\ data.backends[1] = "[" /\ data.backends[Len(data.backends)] = "]"
    /\ Len(ArrayItems(data.backends)) = Len(result.backends)
    /\ \A i \in 1..Len(result.backends) :
         IPvAnyAddress(ArrayItems(data.backends)[i]) = result.backends[i]

\* two different addresses, an IPv6 one among them, were converted
C10_Witness ==
  /\ Converted
  /\ Len(result.backends) = 2
  /\ result.backends[1] # result.backends[2]
  /\ \E i \in 1..2 : result.backends[i].version = 6

(***************************************************************************)
(* C11: any internal fault during to_integration_data (a failure of the    *)
(* model dump or of the JSON encoding of a non-string value) is surfaced   *)
(* as a ConfigurationError with the message "Unable to convert             *)
(* configuration to integration data format", never as another error kind. *)
(***************************************************************************)
C11_FaultsWrapped ==
  pc = "failed" =>
    /\ data.kind = "ConfigurationError"
    /\ "message" \in DOMAIN data
    /\ data.message = "Unable to convert configuration to integration data format"

(***************************************************************************)
(* The charm: the handlers of start, config_changed, cache-config          *)
(* relation_changed and relation_broken, and what Juju does between them   *)
(* (a configuration change, a leadership change, a new relation).          *)
(***************************************************************************)
MaxRelations == 2

CharmBackends ==
  BackendsBase \cup { << ":", ":", "0", "0", "0", "1" >> }

CharmConfigs ==
  { MakeConfig(h, p, b, pr) :
      h \in HostnameBase, p \in PathBase, b \in CharmBackends, pr \in ProtocolBase }

\* an application databag of a relation that nothing was written to
EmptyDatabag == [ key \in {} |-> << >> ]

\* rel.data[self.app].update(values)
databag_update(databag, values) ==
  [ key \in DOMAIN databag \cup DOMAIN values |->
      IF key \in DOMAIN values THEN values[key] ELSE databag[key] ]

\* str(err) of a ConfigurationError: its message, with the entries it lists
ErrorStr(err) == << err.message >> \o err.err_msg

\* a status that is Active whatever the relations are
set_status_AlwaysActive(rels) == ActiveStatus

\* _set_status: the status it sets
set_status(rels) ==
  IF rels[CONFIG_INTEGRATION_NAME] = << >>
  THEN BlockedStatus(<< "Waiting for integration" >>)
  ELSE ActiveStatus

\* the relations after rel.data[self.app].update(values) on the last
\* relation of the list
publish_LastRelation(rels, values) ==
  IF rels[CONFIG_INTEGRATION_NAME] # << >>
  THEN [ rels EXCEPT ![CONFIG_INTEGRATION_NAME][Len(rels[CONFIG_INTEGRATION_NAME])] =
           databag_update(@, values) ]
  ELSE rels

\* the relations after rel.data[self.app].update(values) on the first
\* relation of the list, if there is one
publish(rels, values) ==
  IF rels[CONFIG_INTEGRATION_NAME] # << >>
  THEN [ rels EXCEPT ![CONFIG_INTEGRATION_NAME][1] = databag_update(@, values) ]
  ELSE rels

\* the load without the return that follows a configuration error
loaded_NoReturnOnError(made, rels) ==
  IF made.kind = "ConfigurationError"
  THEN [ relations |-> rels, status |-> set_status(rels) ]
  ELSE [ relations |-> publish(rels, to_integration_data(made)),
         status |-> set_status(publish(rels, to_integration_data(made))) ]

\* what the load leaves when from_charm gave made
loaded(made, rels) ==
  IF made.kind = "ConfigurationError"
  THEN [ relations |-> rels, status |-> BlockedStatus(ErrorStr(made)) ]
  ELSE [ relations |-> publish(rels, to_integration_data(made)),
         status |-> set_status(publish(rels, to_integration_data(made))) ]

\* the load without its leader check
load_integration_data_NoLeaderCheck(leader, cfg, rels, st) ==
  loaded(from_charm(cfg), rels)

\* _load_integration_data: the relations and the status it leaves
load_integration_data(leader, cfg, rels, st) ==
  IF ~leader THEN [ relations |-> rels, status |-> st ]
  ELSE loaded(from_charm(cfg), rels)

\* the list without its i-th relation
Without(list, i) == SubSeq(list, 1, i - 1) \o SubSeq(list, i + 1, Len(list))

CharmInit ==
  /\ config \in CharmConfigs
  /\ pc = "init"
  /\ result = None
  /\ data = None
  /\ is_leader \in BOOLEAN
  /\ relations = NoRelations
  /\ status = MaintenanceStatus

\* Juju: the operator changes the configuration
UpdateConfig ==
  /\ \E c \in CharmConfigs : c # config /\ config' = c
  /\ pc' = "update_config"
  /\ UNCHANGED << result, data, is_leader, relations, status >>

\* Juju: the unit gains or loses leadership
SetLeader ==
  /\ is_leader' = ~is_leader
  /\ pc' = "set_leader"
  /\ UNCHANGED << config, result, data, relations, status >>

\* Juju: a cache-config relation is added, its application databag empty
AddRelation ==
  /\ Len(relations[CONFIG_INTEGRATION_NAME]) < MaxRelations
  /\ relations' = [ relations EXCEPT ![CONFIG_INTEGRATION_NAME] = Append(@, EmptyDatabag) ]
  /\ pc' = "add_relation"
  /\ UNCHANGED << config, result, data, is_leader, status >>

OnStart ==
  /\ status' = set_status(relations)
  /\ pc' = "_on_start"
  /\ UNCHANGED << config, result, data, is_leader, relations >>

OnConfigChanged ==
  /\ relations' = load_integration_data(is_leader, config, relations, status).relations
  /\ status' = load_integration_data(is_leader, config, relations, status).status
  /\ pc' = "_on_config_changed"
  /\ UNCHANGED << config, result, data, is_leader >>

OnCacheConfigRelationChanged ==
  /\ relations[CONFIG_INTEGRATION_NAME] # << >>
  /\ relations' = load_integration_data(is_leader, config, relations, status).relations
  /\ status' = load_integration_data(is_leader, config, relations, status).status
  /\ pc' = "_on_cache_config_relation_changed"
  /\ UNCHANGED << config, result, data, is_leader >>

\* a relation is removed: the handler runs with the broken relation left out
\* of self.model.relations
OnCacheConfigRelationBroken ==
  /\ \E i \in 1..Len(relations[CONFIG_INTEGRATION_NAME]) :
       relations' = [ relations EXCEPT ![CONFIG_INTEGRATION_NAME] = Without(@, i) ]
  /\ status' = set_status(relations')
  /\ pc' = "_on_cache_config_relation_broken"
  /\ UNCHANGED << config, result, data, is_leader >>

CharmNext ==
  \/ UpdateConfig
  \/ SetLeader
  \/ AddRelation
  \/ OnStart
  \/ OnConfigChanged
  \/ OnCacheConfigRelationChanged
  \/ OnCacheConfigRelationBroken

CharmSpec == CharmInit /\ [][CharmNext]_vars

(***************************************************************************)
(* The vocabulary of the claims about the charm.                           *)
(***************************************************************************)
\* the state is the one a handler of config_changed or of cache-config
\* relation_changed left
LoadHandled == pc \in { "_on_config_changed", "_on_cache_config_relation_changed" }

ConfigValid == HostnameInputOk /\ PathInputOk /\ BackendsInputOk /\ ProtocolInputOk

CacheConfig == relations[CONFIG_INTEGRATION_NAME]

\* to_integration_data of the current configuration
Published == to_integration_data(from_charm(config))

WaitingForIntegration ==
  [ name |-> "blocked", message |-> << "Waiting for integration" >> ]

(***************************************************************************)
(* C12: on a leader unit with a valid configuration and an existing        *)
(* cache-config relation, handling config_changed or cache-config          *)
(* relation_changed leaves the application databag of that relation        *)
(* holding exactly the key/value pairs of to_integration_data of the       *)
(* current configuration, and sets the unit status to Active.              *)
(***************************************************************************)
\* C12 as stated: of every cache-config relation that exists
C12_LeaderPublishes ==
  (LoadHandled /\ is_leader /\ ConfigValid /\ CacheConfig # << >>) =>
    /\ status = [ name |-> "active", message |-> << >> ]
    /\ \A i \in 1..Len(CacheConfig) : CacheConfig[i] = Published

\* C12 as amended: of the first cache-config relation
C12_LeaderPublishesToFirstRelation ==
  (LoadHandled /\ is_leader /\ ConfigValid /\ CacheConfig # << >>) =>
    /\ status = [ name |-> "active", message |-> << >> ]
    /\ CacheConfig[1] = Published

\* a leader published a valid configuration to the first of two relations
C12_Witness ==
  /\ LoadHandled /\ is_leader /\ ConfigValid
  /\ Len(CacheConfig) = 2
  /\ DOMAIN CacheConfig[1] = { "hostname", "path", "backends", "protocol" }
  /\ CacheConfig[1] = Published
  /\ DOMAIN CacheConfig[2] = {}
  /\ status.name = "active"

(***************************************************************************)
(* C13: a non-leader unit never publishes: a config_changed or cache-config*)
(* relation_changed event handled while the unit is not leader leaves the  *)
(* application databags of the relations unchanged (empty if they were     *)
(* empty) and the unit status unchanged, whatever the configuration is.    *)
(***************************************************************************)
C13_NonLeaderNeverPublishes ==
  [][ (~is_leader /\ (OnConfigChanged \/ OnCacheConfigRelationChanged)) =>
        (relations' = relations /\ status' = status) ]_vars

\* a follower with a valid configuration and a relation handled the event:
\* the databag is empty and the status is the one start had set
C13_Witness ==
  /\ LoadHandled /\ ~is_leader /\ ConfigValid
  /\ Len(CacheConfig) = 1
  /\ DOMAIN CacheConfig[1] = {}
  /\ status = WaitingForIntegration

(***************************************************************************)
(* C14: whenever the status is recomputed (on start, on cache-config       *)
(* relation_broken, and after a successful leader load), the unit status   *)
(* becomes Blocked("Waiting for integration") if no cache-config relation  *)
(* exists and Active otherwise; so it is Blocked("Waiting for              *)
(* integration") after the only relation is removed, for leader and        *)
(* follower alike, and for a leader with a valid configuration but no      *)
(* relation.                                                               *)
(***************************************************************************)
StatusRecomputed ==
  \/ pc \in { "_on_start", "_on_cache_config_relation_broken" }
  \/ LoadHandled /\ is_leader /\ ConfigValid

DatabagOk(databag) ==
  \/ DOMAIN databag = {}
  \/ /\ DOMAIN databag = { "hostname", "path", "backends", "protocol" }
     /\ HostnameOk(databag.hostname)
     /\ PathOk(databag.path)
     /\ databag.protocol \in Protocol
     /\ Len(ArrayItems(databag.backends)) >= 1
     /\ \A i \in 1..Len(ArrayItems(databag.backends)) :
          EntryOk(ArrayItems(databag.backends)[i])

C15_InvalidConfigBlocks ==
  [][ /\ relations' # relations =>
           \A i \in 1..Len(relations'[CONFIG_INTEGRATION_NAME]) :
             DatabagOk(relations'[CONFIG_INTEGRATION_NAME][i])
      /\ (is_leader /\ LoadHandled'
            /\ (OnConfigChanged \/ OnCacheConfigRelationChanged)
            /\ ~ConfigValid) =>
           /\ relations' = relations
           /\ status'.name = "blocked"
           /\ status'.message[1] = from_charm(config).message
           /\ SubSeq(status'.message, 2, Len(status'.message))
                = from_charm(config).err_msg ]_vars

\* a leader that had published a valid configuration handled config_changed
\* with an invalid one: the status names the error, the databag holds the
\* earlier values
C15_Witness ==
  /\ LoadHandled /\ is_leader /\ ~ConfigValid
  /\ Len(CacheConfig) >= 1
  /\ DOMAIN CacheConfig[1] # {}
  /\ status.name = "blocked"
  /\ status.message[1] = "Config error"
  /\ Len(status.message) >= 2

(***************************************************************************)
(* C16: in every state reachable by any interleaving of start,             *)
(* config_changed, cache-config relation_changed and relation_broken       *)
(* events, with configuration and relation changes in between, if the unit *)
(* is the leader and its status is Active, then a cache-config relation    *)
(* exists, the current configuration is valid, and the relation's          *)
(* application databag equals to_integration_data of the current           *)
(* configuration.                                                          *)
(***************************************************************************)
C16_ActiveLeaderHasPublished ==
  (is_leader /\ status.name = "active") =>
    /\ Len(CacheConfig) >= 1
    /\ ConfigValid
    /\ \A i \in 1..Len(CacheConfig) : CacheConfig[i] = Published

=============================================================================
